---------------------------- MODULE Spec2Model ----------------------------
(***************************************************************************)
(* A model of src/retrieve_data_from_GA4.py: class GetGA4Data.  One        *)
(* instance is constructed and generate_batch_report is invoked on it any  *)
(* number of times.  An invocation builds one request per report name of   *)
(* the config (run_report_batch), sends them as one batch through the      *)
(* client, and turns the reports of the response into typed tables keyed   *)
(* by report name.                                                         *)
(*                                                                         *)
(* The client is the environment: it raises, or it returns a response      *)
(* holding any number of reports, each holding any rows.  The response is  *)
(* immutable and the loop of generate_batch_report reads its reports one   *)
(* at a time, so the model fixes the number of reports when the client     *)
(* returns and draws each report's rows when the loop reaches it;          *)
(* `response' holds the reports read so far.                               *)
(*                                                                         *)
(* A pandas cell is a record [t, v]: t its type, v its value in text.      *)
(***************************************************************************)
EXTENDS Integers, Sequences, FiniteSets, TLC

VARIABLES
    pc,            \* "idle" | "build" | "demux" | "done" | "failed"
    self,          \* the GetGA4Data instance's attributes
    config,        \* the config dictionary the caller passed
    property_id,   \* the property_id the caller passed
    request_lst,   \* run_report_batch: the requests built so far
    sent,          \* the batch requests handed to client.batch_run_reports in this invocation
    nreports,      \* len(response.reports) of the response the client returned
    response,      \* response.reports, as far as the loop has read them (a failing report too)
    config_count,  \* generate_batch_report: index of the next config name
    report_data,   \* generate_batch_report: the column accumulator
    result_dict,   \* generate_batch_report: the tables finalized so far
    error,         \* the exception that ended the invocation, if any
    returned,      \* what the caller received
    earlier        \* how the instance's previous invocation ended: "none" | "returned" | "raised"

vars == <<pc, self, config, property_id, request_lst, sent, nreports, response,
          config_count, report_data, result_dict, error, returned, earlier>>

\* ------------------------------------------------------------- bounds
\* Most reports in one response.
MaxReports == 2
\* Most rows in one report.
MaxRows == 2

\* The row limit every request carries.
RowLimit == 100000

\* ------------------------------------------------------------- values
EmptyMap == [x \in {} |-> <<>>]

NoError == [kind |-> "none", at |-> "none"]

Raised(kind, at) == [kind |-> kind, at |-> at]

\* An attribute no assignment has created yet.
Unset == [set |-> FALSE, val |-> <<>>]

Attr(lst) == [set |-> TRUE, val |-> lst]

\* A raw text value as the service returns it.
Str(s) == [t |-> "str", v |-> s]

\* ------------------------------------------------------------- inputs
ReportNames == {"r1", "r2"}

\* The key orders of a config: the report names of any subset, in any order.
KeyOrders ==
    {ks \in UNION {[1..n -> ReportNames] : n \in 0..Cardinality(ReportNames)} :
        \A i, j \in DOMAIN ks : i # j => ks[i] # ks[j]}

\* The field-group lists a report name is configured with.
FieldGroups ==
    { << [dimension |-> <<"date">>], [metric |-> <<"activeUsers">>] >>,
      << [dimension |-> <<"date", "country">>],
         [metric |-> <<"bounces", "userEngagementDuration">>] >>,
      << [dimension |-> <<"country">>], [metric |-> <<"activeUsers">>] >>,
      << [dimension |-> <<"date">>] >>,
      << [dimension |-> <<"date">>], [metric |-> <<"date">>] >> }

\* A config: its keys in dictionary order, and the value under each key.
Configs ==
    UNION {{[keys |-> ks, groups |-> g] : g \in [{ks[i] : i \in DOMAIN ks} -> FieldGroups]} :
             ks \in KeyOrders}

PropertyIds == {"YOUR_PROPERTY_ID"}

\* The arguments <<start_date, end_date>> of GetGA4Data(...); "" stands for None.
DateArgs == {<<"", "2024-05-31">>, <<"2024-05-01", "">>}

\* The rows the service may return.
Rows ==
    { [dimension_values |-> <<"20240401", "US">>, metric_values |-> <<"20240401", "3.5">>],
      [dimension_values |-> <<"20240402", "TW">>, metric_values |-> <<"20240402", "7">>],
      [dimension_values |-> <<"abc">>, metric_values |-> <<"abc">>] }

\* The reports the service may return: up to MaxRows rows each.
Reports == UNION {[1..n -> Rows] : n \in 0..MaxRows}

\* ------------------------------------------------------------- __init__
GetGA4Data(start_date, end_date) ==
    [start_date |-> IF start_date # "" THEN start_date ELSE "2024-04-01",
     end_date |-> IF end_date # "" THEN end_date ELSE "2024-04-30",
     dimension_lst |-> Unset,
     metric_lst |-> Unset]

\* ------------------------------------------------------------- parameters
dimension_parameters(s, dimension_lst) == [s EXCEPT !.dimension_lst = Attr(dimension_lst)]

metric_parameters(s, metric_lst) == [s EXCEPT !.metric_lst = Attr(metric_lst)]

reset_parameters_kept(s) == s

reset_parameters(s) == [s EXCEPT !.dimension_lst = Attr(<<>>), !.metric_lst = Attr(<<>>)]

request_parameters_swapped(s, dimension_lst, metric_lst) ==
    [dimensions |-> metric_parameters(s, metric_lst).metric_lst.val,
     metrics |-> dimension_parameters(s, dimension_lst).dimension_lst.val,
     date_ranges |-> << [start_date |-> s.start_date, end_date |-> s.end_date] >>,
     limit |-> RowLimit]

\* The request built from the lists as the two setters return them.
request_parameters(s, dimension_lst, metric_lst) ==
    [dimensions |-> dimension_parameters(s, dimension_lst).dimension_lst.val,
     metrics |-> metric_parameters(s, metric_lst).metric_lst.val,
     date_ranges |-> << [start_date |-> s.start_date, end_date |-> s.end_date] >>,
     limit |-> RowLimit]

\* ------------------------------------------------------------- parse_input
HasKey(cfg, name) == \E i \in DOMAIN cfg.keys : cfg.keys[i] = name

parse_input_lenient(cfg, name, params) ==
    IF ~HasKey(cfg, name)
    THEN [error |-> "UnboundLocalError", value |-> <<>>]
    ELSE LET Holds(data) == params \in DOMAIN data
             value == SelectSeq(cfg.groups[name], Holds)
         IN  IF value = <<>>
             THEN [error |-> "none", value |-> <<>>]
             ELSE [error |-> "none", value |-> value[1][params]]

\* value is bound only when name is a key; value[0] needs a record holding params.
parse_input(cfg, name, params) ==
    IF ~HasKey(cfg, name)
    THEN [error |-> "UnboundLocalError", value |-> <<>>]
    ELSE LET Holds(data) == params \in DOMAIN data
             value == SelectSeq(cfg.groups[name], Holds)
         IN  IF value = <<>>
             THEN [error |-> "IndexError", value |-> <<>>]
             ELSE [error |-> "none", value |-> value[1][params]]

\* ------------------------------------------------------------- the accumulator
\* defaultdict(list): its keys in insertion order, and the list under each key.
defaultdict_list == [columns |-> <<>>, data |-> EmptyMap]

\* report_data[key].append(value)
append_value(rd, key, value) ==
    IF key \in DOMAIN rd.data
    THEN [rd EXCEPT !.data[key] = Append(@, value)]
    ELSE [columns |-> Append(rd.columns, key), data |-> (key :> <<value>>) @@ rd.data]

\* for idx, key in enumerate(keys): report_data[key].append(values[idx].value)
RECURSIVE unpack_values(_, _, _, _)
unpack_values(rd, keys, values, idx) ==
    IF idx > Len(keys) THEN [error |-> "none", data |-> rd]
    ELSE IF idx > Len(values) THEN [error |-> "IndexError", data |-> rd]
    ELSE unpack_values(append_value(rd, keys[idx], Str(values[idx])), keys, values, idx + 1)

\* The body of "for row in report.rows" for one row.
unpack_row(cfg, count, rd, row) ==
    IF count + 1 > Len(cfg.keys)
    THEN [error |-> Raised("IndexError", "config_name_lst"), data |-> rd]
    ELSE LET name == cfg.keys[count + 1]
             dimensions == parse_input(cfg, name, "dimension")
             metrics == parse_input(cfg, name, "metric")
         IN  IF dimensions.error # "none"
             THEN [error |-> Raised(dimensions.error, "parse_input"), data |-> rd]
             ELSE IF metrics.error # "none"
             THEN [error |-> Raised(metrics.error, "parse_input"), data |-> rd]
             ELSE LET d == unpack_values(rd, dimensions.value, row.dimension_values, 1)
                  IN  IF d.error # "none"
                      THEN [error |-> Raised(d.error, "dimension_values"), data |-> d.data]
                      ELSE LET m == unpack_values(d.data, metrics.value, row.metric_values, 1)
                           IN  IF m.error # "none"
                               THEN [error |-> Raised(m.error, "metric_values"), data |-> m.data]
                               ELSE [error |-> NoError, data |-> m.data]

\* for row in report.rows: ...
RECURSIVE unpack_rows(_, _, _, _, _)
unpack_rows(cfg, count, rd, rows, j) ==
    IF j > Len(rows) THEN [error |-> NoError, data |-> rd]
    ELSE LET r == unpack_row(cfg, count, rd, rows[j])
         IN  IF r.error # NoError THEN r
             ELSE unpack_rows(cfg, count, r.data, rows, j + 1)

\* report_data = defaultdict(list), after a report's table is stored.
next_report_data_kept(rd) == rd

next_report_data(rd) == defaultdict_list

\* ------------------------------------------------------------- pandas
\* int(text), on the texts the rows hold.
Int64Of == ("20240401" :> "20240401") @@ ("20240402" :> "20240402") @@ ("7" :> "7")

\* float(text), on the texts the rows hold.
Float64Of ==
    ("20240401" :> "20240401.0") @@ ("20240402" :> "20240402.0") @@ ("7" :> "7.0")
        @@ ("3.5" :> "3.5")

\* pd.to_datetime(text), on the texts that reach a date column.
ToDatetime ==
    ("20240401" :> "2024-04-01 00:00:00") @@ ("20240402" :> "2024-04-02 00:00:00")

\* datetime(x.year, x.month, x.day): the day of a timestamp, at midnight.
DayOf ==
    ("2024-04-01 00:00:00" :> "2024-04-01 00:00:00")
        @@ ("2024-04-02 00:00:00" :> "2024-04-02 00:00:00")

\* pd.DataFrame(data): the columns must have one length.
DataFrame(data) ==
    IF \A a, b \in DOMAIN data.data : Len(data.data[a]) = Len(data.data[b])
    THEN [error |-> NoError, df |-> [columns |-> data.columns, data |-> data.data]]
    ELSE [error |-> Raised("ValueError", "DataFrame"), df |-> defaultdict_list]

HasColumn(df, column) == column \in DOMAIN df.data

\* len(df.index)
NRows(df) == IF df.columns = <<>> THEN 0 ELSE Len(df.data[df.columns[1]])

\* df[column] = values: a new column goes last, an old one keeps its place.
set_column(df, column, values) ==
    IF HasColumn(df, column)
    THEN [df EXCEPT !.data[column] = values]
    ELSE [columns |-> Append(df.columns, column), data |-> (column :> values) @@ df.data]

\* df[column].astype(dtype) on a column of text
CanCast(cells, dtype) ==
    \A i \in DOMAIN cells :
        cells[i].v \in DOMAIN (IF dtype = "int64" THEN Int64Of ELSE Float64Of)

astype(cells, dtype) ==
    [i \in DOMAIN cells |->
        [t |-> dtype, v |-> (IF dtype = "int64" THEN Int64Of ELSE Float64Of)[cells[i].v]]]

column_types_typo ==
    << <<"activeUsers", "int64">>, <<"active1DayUsers", "int64">>,
       <<"active7DayUsers", "int64">>, <<"active28DayUsers", "int64">>,
       <<"userEngagementDuration", "int64">>, <<"engagedSessions", "int64">>,
       <<"sessions", "int64">> >>

\* The dictionary of change_col_type, in its order.
column_types ==
    << <<"activeUsers", "int64">>, <<"active1DayUsers", "int64">>,
       <<"active7DayUsers", "int64">>, <<"active28DayUsers", "int64">>,
       <<"userEngagementDuration", "float64">>, <<"engagedSessions", "int64">>,
       <<"sessions", "int64">> >>

RECURSIVE change_col_type_from(_, _)
change_col_type_from(df, i) ==
    IF i > Len(column_types) THEN [error |-> NoError, df |-> df]
    ELSE LET column == column_types[i][1]
             dtype == column_types[i][2]
         IN  IF ~HasColumn(df, column) THEN change_col_type_from(df, i + 1)
             ELSE IF ~CanCast(df.data[column], dtype)
             THEN [error |-> Raised("ValueError", "change_col_type"), df |-> df]
             ELSE change_col_type_from(
                      set_column(df, column, astype(df.data[column], dtype)), i + 1)

change_col_type(df) == change_col_type_from(df, 1)

\* df['date'] is read whether or not the table has the column.
change_date_type(df) ==
    IF ~HasColumn(df, "date")
    THEN [error |-> Raised("KeyError", "change_date_type"), df |-> df]
    ELSE IF \E i \in DOMAIN df.data["date"] : df.data["date"][i].v \notin DOMAIN ToDatetime
    THEN [error |-> Raised("ValueError", "change_date_type"), df |-> df]
    ELSE [error |-> NoError,
          df |-> set_column(df, "date",
                     [i \in DOMAIN df.data["date"] |->
                         [t |-> "datetime", v |-> DayOf[ToDatetime[df.data["date"][i].v]]]])]

add_insert_info_unstamped(df) ==
    set_column(df, "uuid", [i \in 1..NRows(df) |-> [t |-> "uuid4", v |-> ToString(i)]])

\* uuid: a fresh value per row, told apart by the row; emitted_at: one clock reading.
add_insert_info(df) ==
    LET n == NRows(df)
        with_uuid == set_column(df, "uuid", [i \in 1..n |-> [t |-> "uuid4", v |-> ToString(i)]])
    IN  set_column(with_uuid, "emitted_at", [i \in 1..n |-> [t |-> "datetime", v |-> "now"]])

create_dataframe(data) ==
    LET made == DataFrame(data)
    IN  IF made.error # NoError THEN made
        ELSE LET typed == change_col_type(made.df)
             IN  IF typed.error # NoError THEN typed
                 ELSE LET dated == change_date_type(typed.df)
                      IN  IF dated.error # NoError THEN dated
                          ELSE [error |-> NoError, df |-> add_insert_info(dated.df)]

\* ------------------------------------------------------------- the invocation
NoResult == [has |-> FALSE, value |-> EmptyMap]

outcome_partial(err, result) == [has |-> TRUE, value |-> result]

\* What the caller of generate_batch_report receives: the mapping of the return
\* statement, or nothing when an exception left the method (it catches none).
outcome(err, result) == IF err = NoError THEN [has |-> TRUE, value |-> result] ELSE NoResult

has_next_name(count, n_reports, n_names) == count < n_names

\* for report in response.reports: the loop runs once per report of the response.
has_next_report(count, n_reports, n_names) == count < n_reports

\* An exception leaves generate_batch_report: its locals are discarded with the
\* frame.  config_count stays, as the number of reports finalized before the raise.
Fail(e) ==
    /\ pc' = "failed"
    /\ error' = e
    /\ returned' = outcome(e, result_dict)
    /\ request_lst' = <<>>
    /\ report_data' = defaultdict_list
    /\ result_dict' = EmptyMap

Init ==
    /\ pc = "idle"
    /\ \E args \in DateArgs : self = GetGA4Data(args[1], args[2])
    /\ config = [keys |-> <<>>, groups |-> EmptyMap]
    /\ property_id = ""
    /\ request_lst = <<>>
    /\ sent = <<>>
    /\ nreports = 0
    /\ response = <<>>
    /\ config_count = 0
    /\ report_data = defaultdict_list
    /\ result_dict = EmptyMap
    /\ error = NoError
    /\ returned = NoResult
    /\ earlier = "none"

\* The caller invokes generate_batch_report(client, property_id, config), which
\* enters run_report_batch.
Call ==
    /\ pc \in {"idle", "done", "failed"}
    /\ \E cfg \in Configs, pid \in PropertyIds :
          /\ config' = cfg
          /\ property_id' = pid
    /\ pc' = "build"
    /\ request_lst' = <<>>
    /\ sent' = <<>>
    /\ nreports' = 0
    /\ response' = <<>>
    /\ config_count' = 0
    /\ report_data' = defaultdict_list
    /\ result_dict' = EmptyMap
    /\ error' = NoError
    /\ returned' = NoResult
    /\ earlier' = (IF pc = "idle" THEN "none" ELSE IF pc = "done" THEN "returned" ELSE "raised")
    /\ UNCHANGED self

\* One pass of "for name in list(config.keys())" in run_report_batch.
BuildRequest ==
    /\ pc = "build"
    /\ Len(request_lst) < Len(config.keys)
    /\ LET name == config.keys[Len(request_lst) + 1]
           dimension_lst == parse_input(config, name, "dimension")
           metric_lst == parse_input(config, name, "metric")
       IN  IF dimension_lst.error # "none"
           THEN /\ Fail(Raised(dimension_lst.error, "parse_input"))
                /\ UNCHANGED <<self, response>>
           ELSE IF metric_lst.error # "none"
           THEN /\ Fail(Raised(metric_lst.error, "parse_input"))
                /\ UNCHANGED <<self, response>>
           ELSE /\ request_lst' =
                      Append(request_lst,
                             request_parameters(self, dimension_lst.value, metric_lst.value))
                /\ self' = reset_parameters(
                               metric_parameters(
                                   dimension_parameters(self, dimension_lst.value),
                                   metric_lst.value))
                /\ UNCHANGED <<pc, error, returned, response, report_data, result_dict>>
    /\ UNCHANGED <<config, property_id, sent, nreports, config_count, earlier>>

\* The batch request of run_report_batch.
BatchRunReportsRequest(pid, requests) ==
    [property |-> <<"properties/", pid>>, requests |-> requests]

\* client.batch_run_reports(requests): the client raises, or returns a response.
SendBatch ==
    /\ pc = "build"
    /\ Len(request_lst) = Len(config.keys)
    /\ sent' = Append(sent, BatchRunReportsRequest(property_id, request_lst))
    /\ \/ /\ Fail(Raised("ServiceError", "batch_run_reports"))
          /\ UNCHANGED <<nreports, response>>
       \/ /\ \E n \in 0..MaxReports : nreports' = n
          /\ pc' = "demux"
          /\ UNCHANGED <<error, returned, request_lst, response, report_data, result_dict>>
    /\ UNCHANGED <<self, config, property_id, config_count, earlier>>

\* One pass of "for report in response.reports" in generate_batch_report.
DemuxReport ==
    /\ pc = "demux"
    /\ has_next_report(config_count, nreports, Len(config.keys))
    /\ \E report \in Reports :
          LET unpacked == unpack_rows(config, config_count, report_data, report, 1)
              made == create_dataframe(unpacked.data)
          IN  IF unpacked.error # NoError
              THEN /\ Fail(unpacked.error)
                   /\ response' = Append(response, report)
                   /\ UNCHANGED config_count
              ELSE IF made.error # NoError
              THEN /\ Fail(made.error)
                   /\ response' = Append(response, report)
                   /\ UNCHANGED config_count
              ELSE IF config_count + 1 > Len(config.keys)
              THEN /\ Fail(Raised("IndexError", "config_name_lst"))
                   /\ response' = Append(response, report)
                   /\ UNCHANGED config_count
              ELSE /\ result_dict' = (config.keys[config_count + 1] :> made.df) @@ result_dict
                   /\ report_data' = next_report_data(unpacked.data)
                   /\ config_count' = config_count + 1
                   /\ response' = Append(response, report)
                   /\ UNCHANGED <<pc, error, returned, request_lst>>
    /\ UNCHANGED <<self, config, property_id, sent, nreports, earlier>>

\* return result_dict
ReturnResult ==
    /\ pc = "demux"
    /\ ~has_next_report(config_count, nreports, Len(config.keys))
    /\ pc' = "done"
    /\ returned' = outcome(NoError, result_dict)
    /\ UNCHANGED <<self, config, property_id, request_lst, sent, nreports, response,
                   config_count, report_data, result_dict, error, earlier>>

Next == Call \/ BuildRequest \/ SendBatch \/ DemuxReport \/ ReturnResult

Spec == Init /\ [][Next]_vars

\* ------------------------------------------------------------- what the claims speak of
\* The number of report names of the config.
NNames == Len(config.keys)

\* Every report name has a record for each kind.
Resolvable(cfg) ==
    \A i \in DOMAIN cfg.keys : \A kind \in {"dimension", "metric"} :
        \E j \in DOMAIN cfg.groups[cfg.keys[i]] : kind \in DOMAIN cfg.groups[cfg.keys[i]][j]

\* The configured list of a kind: that of the first record holding the kind.
Configured(cfg, name, kind) ==
    LET g == cfg.groups[name]
        first == CHOOSE j \in DOMAIN g :
                    /\ kind \in DOMAIN g[j]
                    /\ \A k \in DOMAIN g : kind \in DOMAIN g[k] => j <= k
    IN  g[first][kind]

Elems(seq) == {seq[i] : i \in DOMAIN seq}

\* The names of a report's dimensions and metrics are pairwise distinct.
DistinctFields(cfg, name) ==
    LET all == Configured(cfg, name, "dimension") \o Configured(cfg, name, "metric")
    IN  \A i, j \in DOMAIN all : i # j => all[i] # all[j]

IntegerColumns ==
    {"activeUsers", "active1DayUsers", "active7DayUsers", "active28DayUsers",
     "engagedSessions", "sessions"}

FloatColumns == {"userEngagementDuration"}

ProvenanceColumns == {"uuid", "emitted_at"}

\* The cell a column of the given name holds for a text the service returned.
Typed(column, text) ==
    IF column \in IntegerColumns THEN [t |-> "int64", v |-> Int64Of[text]]
    ELSE IF column \in FloatColumns THEN [t |-> "float64", v |-> Float64Of[text]]
    ELSE IF column = "date" THEN [t |-> "datetime", v |-> DayOf[ToDatetime[text]]]
    ELSE [t |-> "str", v |-> text]

\* Table `table' holds report `rows' and nothing else, under the lists of `name'.
HoldsOnly(cfg, name, table, rows) ==
    LET dimensions == Configured(cfg, name, "dimension")
        metrics == Configured(cfg, name, "metric")
    IN  /\ NRows(table) = Len(rows)
        /\ \A k \in DOMAIN dimensions :
              /\ HasColumn(table, dimensions[k])
              /\ Len(table.data[dimensions[k]]) = Len(rows)
              /\ \A j \in DOMAIN rows :
                    table.data[dimensions[k]][j] = Typed(dimensions[k], rows[j].dimension_values[k])
        /\ \A k \in DOMAIN metrics :
              /\ HasColumn(table, metrics[k])
              /\ Len(table.data[metrics[k]]) = Len(rows)
              /\ \A j \in DOMAIN rows :
                    table.data[metrics[k]][j] = Typed(metrics[k], rows[j].metric_values[k])

\* The invocation returned and the response held one report per report name.
ReturnedInOrder == pc = "done" /\ nreports = NNames

\* The first n report names of the config.
FirstNames(n) == {config.keys[i] : i \in 1..n}

\* A table without its uuid and emitted_at columns.
WithoutProvenance(table) ==
    [columns |-> SelectSeq(table.columns, LAMBDA c : c \notin ProvenanceColumns),
     data |-> [c \in DOMAIN table.data \ ProvenanceColumns |-> table.data[c]]]

\* The table of the i-th report of a response, from the config and that report alone.
TableOf(cfg, resp, i) ==
    create_dataframe(unpack_rows(cfg, i - 1, defaultdict_list, resp[i], 1).data).df

C4_AsStated ==
    ~ /\ pc = "failed"
      /\ error.at = "change_date_type"
      /\ config_count < NNames
      /\ response[Len(response)] # <<>>
      /\ "date" \notin Elems(Configured(config, config.keys[config_count + 1], "dimension"))
                        \cup Elems(Configured(config, config.keys[config_count + 1], "metric"))

\* ------------------------------------------------------------- C5
\* C5: when some report name of the config lacks a record of either kind, the
\* client is never called in the invocation, which ends in parse_input's lookup
\* error with nothing returned.
C5_ResolveBeforeSend ==
    ~Resolvable(config) =>
        /\ sent = <<>>
        /\ pc \in {"build", "failed"}
        /\ pc = "failed" =>
              /\ error = Raised("IndexError", "parse_input")
              /\ ~returned.has

\* C5 witness: the second name fails to resolve after the first name's request
\* was built, and nothing was sent.
C5_Witness ==
    /\ pc = "failed"
    /\ error.at = "parse_input"
    /\ NNames = 2
    /\ Resolvable([keys |-> <<config.keys[1]>>,
                   groups |-> [n \in {config.keys[1]} |-> config.groups[n]]])
    /\ sent = <<>>

\* ------------------------------------------------------------- C6
\* C6: an invocation that fails hands the caller no mapping, and a mapping is
\* handed over only by an invocation that returned.
C6_NoPartialResult ==
    /\ pc = "failed" => returned = NoResult /\ error # NoError
    /\ returned.has => pc = "done" /\ error = NoError

\* C6 witness: a report fails after an earlier report's table was finalized.
C6_Witness ==
    /\ pc = "failed"
    /\ config_count > 0
    /\ error.at \in {"dimension_values", "metric_values", "change_col_type", "change_date_type"}
    /\ returned = NoResult

\* ------------------------------------------------------------- C7
\* The returned tables, without their provenance columns, are those of the
\* config and the response alone.
ReturnedFromInputsAlone ==
    pc = "done" =>
        /\ returned.has
        /\ \A i \in 1..Len(response) :
              /\ config.keys[i] \in DOMAIN returned.value
              /\ WithoutProvenance(returned.value[config.keys[i]])
                    = WithoutProvenance(TableOf(config, response, i))

\* C7 as stated: the returned tables depend on the invocation's config and
\* response alone, and after an invocation on a non-empty config dimension_lst
\* and metric_lst are empty lists.
C7_AsStated ==
    /\ ReturnedFromInputsAlone
    /\ (pc \in {"done", "failed"} /\ NNames > 0) =>
          self.dimension_lst = Attr(<<>>) /\ self.metric_lst = Attr(<<>>)

\* C7 amended: the returned tables depend on the invocation's config and response
\* alone, and dimension_lst and metric_lst never hold a report's list between
\* steps: they are empty lists once the invocation has built a request (so after
\* every invocation that reached the client on a non-empty config), and until
\* then as the invocation found them, unset on a fresh instance.
C7_Independent ==
    /\ ReturnedFromInputsAlone
    /\ self.dimension_lst \in {Unset, Attr(<<>>)}
    /\ self.metric_lst \in {Unset, Attr(<<>>)}
    /\ (NNames > 0 /\ (pc \in {"demux", "done"} \/ sent # <<>>)) =>
          self.dimension_lst = Attr(<<>>) /\ self.metric_lst = Attr(<<>>)

\* C7 witness: an invocation returns tables on an instance whose previous
\* invocation returned too.
C7_Witness ==
    /\ pc = "done"
    /\ earlier = "returned"
    /\ NNames = 2
    /\ DOMAIN returned.value = Elems(config.keys)
    /\ self.dimension_lst = Attr(<<>>)
    /\ self.metric_lst = Attr(<<>>)

\* ------------------------------------------------------------- C8
\* C8: in every finalized table the six integer columns hold int64 cells,
\* userEngagementDuration holds float64 cells, every other column but date and
\* the provenance columns holds the service's text unchanged, and no column is
\* there that the report did not configure.
C8_Coercion ==
    \A i \in 1..Len(response) :
        (i <= NNames /\ config.keys[i] \in DOMAIN result_dict) =>
            LET table == result_dict[config.keys[i]]
                dimensions == Configured(config, config.keys[i], "dimension")
                metrics == Configured(config, config.keys[i], "metric")
            IN  /\ DOMAIN table.data \subseteq
                      Elems(dimensions) \cup Elems(metrics) \cup ProvenanceColumns
                /\ \A c \in DOMAIN table.data \ ProvenanceColumns :
                      \A j \in DOMAIN table.data[c] :
                          table.data[c][j].t =
                              (IF c \in IntegerColumns THEN "int64"
                               ELSE IF c \in FloatColumns THEN "float64"
                               ELSE IF c = "date" THEN "datetime" ELSE "str")
                /\ DistinctFields(config, config.keys[i]) =>
                      /\ \A k \in DOMAIN dimensions :
                            dimensions[k] \notin IntegerColumns \cup FloatColumns \cup {"date"} =>
                                table.data[dimensions[k]] =
                                    [j \in DOMAIN response[i] |->
                                        Str(response[i][j].dimension_values[k])]
                      /\ \A k \in DOMAIN metrics :
                            metrics[k] \notin IntegerColumns \cup FloatColumns \cup {"date"} =>
                                table.data[metrics[k]] =
                                    [j \in DOMAIN response[i] |->
                                        Str(response[i][j].metric_values[k])]

\* C8 witness: returned tables with an integer column, a float column, a text
\* dimension and a text metric, and without the allow-list's sessions column.
C8_Witness ==
    /\ pc = "done"
    /\ \E a, b \in DOMAIN returned.value :
          /\ HasColumn(returned.value[a], "activeUsers")
          /\ returned.value[a].data["activeUsers"][1].t = "int64"
          /\ ~HasColumn(returned.value[a], "sessions")
          /\ HasColumn(returned.value[b], "userEngagementDuration")
          /\ returned.value[b].data["userEngagementDuration"][1] = [t |-> "float64", v |-> "7.0"]
          /\ returned.value[b].data["bounces"][1].t = "str"
          /\ returned.value[b].data["country"][1].t = "str"

\* ------------------------------------------------------------- C9
\* C9: an invocation calls the client at most once, and once run_report_batch has
\* the response exactly once, with one request per config name in key order, each
\* carrying that name's dimensions and metrics in configured order, the
\* instance's date range and the limit 100000.
C9_OneBatch ==
    /\ Len(sent) <= 1
    /\ pc \in {"demux", "done"} =>
          /\ Len(sent) = 1
          /\ sent[1].property = <<"properties/", property_id>>
          /\ Len(sent[1].requests) = NNames
          /\ \A i \in DOMAIN config.keys :
                sent[1].requests[i] =
                    [dimensions |-> Configured(config, config.keys[i], "dimension"),
                     metrics |-> Configured(config, config.keys[i], "metric"),
                     date_ranges |-> << [start_date |-> self.start_date,
                                         end_date |-> self.end_date] >>,
                     limit |-> 100000]

\* C9 witness: the client answered a batch of two different requests.
C9_Witness ==
    /\ pc = "demux"
    /\ Len(sent) = 1
    /\ Len(sent[1].requests) = 2
    /\ sent[1].requests[1] # sent[1].requests[2]

\* ------------------------------------------------------------- C10
\* C10 as stated: the keys of a returned mapping are a prefix of the config's key
\* order, and a response with more reports than the config has names fails with
\* a positional index error at the first surplus report and returns nothing.
C10_AsStated ==
    /\ returned.has => \E n \in 0..NNames : DOMAIN returned.value = FirstNames(n)
    /\ (pc = "demux" /\ nreports > NNames) => config_count <= NNames
    /\ (pc = "done" /\ returned.has) => nreports <= NNames
    /\ (pc = "failed" /\ error.at \notin {"parse_input", "batch_run_reports"}
            /\ config_count = NNames) =>
          /\ error.kind = "IndexError"
          /\ returned = NoResult

=============================================================================
